---- MODULE Spec2Model ----
(***************************************************************************)
(* A model of MotionPlanner (motion_planner/src/motion_planner.cpp): the   *)
(* per-cycle RunOnce of the planning loop, the inbound message handlers    *)
(* and the helpers RunOnce calls.                                          *)
(*                                                                         *)
(* Numbers.  The code computes with doubles; the model computes exactly    *)
(* with integers in fixed units:                                           *)
(*   time          1 unit = 5e-6 s      (Sec units = 1 s)                  *)
(*   length, s     1 unit = 2 mm        (Meter units = 1 m)                *)
(*   velocity      1 unit = 0.05 m/s    (MPS units = 1 m/s)                *)
(*   acceleration  1 unit = 0.2 m/s^2   (MPS2 units = 1 m/s^2)             *)
(*   heading       quarter turns, 0..3  (Cos and Sin are then -1, 0 or 1)  *)
(*   curvature     1 unit = 1e-4 1/m                                       *)
(* so that the code's tolerances are whole numbers of units.  Products of  *)
(* quantities are converted between units where the code multiplies them;  *)
(* every time step the model uses is a whole number of seconds, for which  *)
(* these conversions are exact.                                            *)
(***************************************************************************)
EXTENDS Integers, Sequences, FiniteSets, TLC

VARIABLES
  pc,                       \* where Launch's loop is: in spinOnce, or in RunOnce
                            \* before the call or the branch named
  now,                      \* ros::Time::now(), the wall clock
  ego_vehicle_status_,      \* the last CarlaEgoVehicleStatus received
  ego_object_,              \* the ego's object as RunOnce last looked it up
  route_requests,           \* the calls of the route service, each with the
                            \* goal pose delivery it was made for
  optimal_trajectory,       \* RunOnce's local: the trajectory it builds
  ego_vehicle_id_,          \* -1 until the ego info handler has run
  objects_map_,             \* object id -> object
  traffic_light_status_list_,  \* traffic light id -> status
  traffic_lights_info_list_,   \* traffic light id -> info
  vehicle_state_,           \* the KinoDynamicState held by vehicle_state_
  preserve_history_trajectory_point_num,  \* the PlanningConfig parameter
  has_history_trajectory_,
  history_trajectory_,
  stitching_trajectory,     \* RunOnce's local: the last stitching result
  obstacles,                \* RunOnce's local: what GetKeyObstacle returned
  ref_lines,                \* RunOnce's local: what GetReferenceLines left in it
  planning_targets,         \* RunOnce's local: what GetPlanningTargets returned
  published,                \* the trajectories the last RunOnce published
  prev_status,              \* status of the last trajectory published before it
  cycle_log,                \* the calls the last RunOnce made, in order
  optimizer_output          \* what Process left in optimal_trajectory (last RunOnce)

\* the two traffic light maps
lights == <<traffic_light_status_list_, traffic_lights_info_list_>>

\* the reference lines and the targets built from them
targets == <<ref_lines, planning_targets>>

\* what RunOnce, taken as one step, and the helpers called by themselves
\* leave alone
launch == <<pc, ego_vehicle_status_, route_requests>>

vars == <<launch, ego_object_, optimal_trajectory,
          now, ego_vehicle_id_, objects_map_, lights, vehicle_state_,
          preserve_history_trajectory_point_num, has_history_trajectory_, history_trajectory_, stitching_trajectory,
          obstacles, targets, published, prev_status, cycle_log, optimizer_output>>

----------------------------------------------------------------------------
(* Units *)

Sec   == 2 * 100000
Meter == 5 * 100
MPS   == 2 * 10
MPS2  == 1 * 5

Abs(n) == IF n < 0 THEN -n ELSE n
Min(a, b) == IF a < b THEN a ELSE b
Max(a, b) == IF a > b THEN a ELSE b

\* cos and sin of a heading given in quarter turns
Cos(q) == CASE q % 4 = 0 -> 1 [] q % 4 = 2 -> -1 [] OTHER -> 0
Sin(q) == CASE q % 4 = 1 -> 1 [] q % 4 = 3 -> -1 [] OTHER -> 0

\* v [0.05 m/s] * t [5e-6 s] in length units [2 mm]
VelTimesTime(v, t) == (v * t) \div 8000
\* a [0.2 m/s^2] * t [5e-6 s] in velocity units [0.05 m/s]
AccTimesTime(a, t) == (a * t) \div 50000
\* 0.5 * a * t in velocity units
HalfAccTimesTime(a, t) == (a * t) \div 100000

----------------------------------------------------------------------------
(* Bounds of the model *)

MaxCycles   == 3    \* the clock stops after this many cycle periods
MaxOptLen   == 3    \* the longest trajectory the optimizer returns
MaxPreserve == 1    \* preserve_history_trajectory_point_num is 0..MaxPreserve
MaxHistLen  == 3    \* the longest history GetStitchingTrajectory is tried on
MaxRefLines == 3    \* the most reference lines GetPlanningTargets is tried on
MaxLaunchCycles == 2    \* the clock of the loop taken call by call stops after these
MaxRouteRequests == 1   \* the most route requests sent

----------------------------------------------------------------------------
(* PlanningConfig::Instance(): the parameters the planner reads.  Their    *)
(* values are set outside this file; the model fixes one setting, except   *)
(* for preserve_history_trajectory_point_num, which is a variable.         *)

planning_cycle_time == 1 * Sec                   \* 1.0 / loop_rate()
max_lookahead_time == 3 * Sec
delta_t == 1 * Sec
max_lon_acc == 3 * MPS2
max_replan_lat_distance_threshold == Meter \div 2
max_replan_lon_distance_threshold == (5 * Meter) \div 2
desired_velocity == 8 * MPS
max_lat_acc == 4 * MPS2

----------------------------------------------------------------------------
(* Messages *)

NORMAL == "NORMAL"
EMPTY == "EMPTY"
EMERGENCYSTOP == "EMERGENCYSTOP"

\* planning_msgs::TrajectoryPoint with its path_point flattened
TrajectoryPoint(x, y, theta, s, kappa, vel, acc, t) ==
  [x |-> x, y |-> y, theta |-> theta, s |-> s, kappa |-> kappa, dkappa |-> 0,
   vel |-> vel, acc |-> acc, jerk |-> 0, steer_angle |-> 0, relative_time |-> t]

\* a value-initialised TrajectoryPoint: every field zero
DefaultTrajectoryPoint == TrajectoryPoint(0, 0, 0, 0, 0, 0, 0, 0)

\* a value-initialised planning_msgs::Trajectory
DefaultTrajectory == [trajectory_points |-> <<>>, stamp |-> 0, status |-> "DEFAULT"]

\* a value-initialised carla_msgs::CarlaEgoVehicleStatus: its velocity
DefaultEgoVehicleStatus == [velocity |-> 0]

\* a value-initialised derived_object_msgs::Object: its pose.position
DefaultObject == [x |-> 0, y |-> 0, z |-> 0]

\* std::unordered_map::operator[] on objects_map_ (line 92): the object of
\* the id, which line 89 has found in the map; a value-initialised object
\* for an id the map does not hold
ObjectOf(map, id) == IF id \in DOMAIN map THEN map[id] ELSE DefaultObject

\* geometry_msgs::Pose, its orientation as the yaw it is made from
Pose(x, y, z, yaw) == [x |-> x, y |-> y, z |-> z, yaw |-> yaw]

\* a value-initialised geometry_msgs::Pose
DefaultPose == Pose(0, 0, 0, 0)

\* vehicle_state::KinoDynamicState
KinoDynamicState(x, y, z, theta, kappa, v, a) ==
  [x |-> x, y |-> y, z |-> z, theta |-> theta, kappa |-> kappa, v |-> v, a |-> a]

----------------------------------------------------------------------------
(* The stitching helpers.  Indices are the code's: 0-based, so index i is  *)
(* element i + 1 of the TLA+ sequence.                                     *)

\* the binary search with the tolerance left out of the comparison
RECURSIVE LowerBoundWithoutEps(_, _, _, _, _)
LowerBoundWithoutEps(trajectory, first, len, relative, eps) ==
  IF len <= 0 THEN first
  ELSE LET half == len \div 2
           mid  == first + half
       IN IF trajectory[mid + 1].relative_time < relative
          THEN LowerBoundWithoutEps(trajectory, mid + 1, len - half - 1, relative, eps)
          ELSE LowerBoundWithoutEps(trajectory, first, half, relative, eps)

\* std::lower_bound(first, first + len, relative, cmp) with
\* cmp(tp, r) = tp.relative_time + eps < r, as the library's binary search
RECURSIVE LowerBound(_, _, _, _, _)
LowerBound(trajectory, first, len, relative, eps) ==
  IF len <= 0 THEN first
  ELSE LET half == len \div 2
           mid  == first + half
       IN IF trajectory[mid + 1].relative_time + eps < relative
          THEN LowerBound(trajectory, mid + 1, len - half - 1, relative, eps)
          ELSE LowerBound(trajectory, first, half, relative, eps)

GetTimeMatchIndex(relative, eps, trajectory) ==
  IF relative > trajectory[Len(trajectory)].relative_time
  THEN Len(trajectory) - 1
  ELSE LowerBound(trajectory, 0, Len(trajectory), relative, eps)

\* the tolerance 1.0e-5 s that GetStitchingTrajectory passes as eps
kEpsTime == 2

\* twice kEps = 1.0e-5 m^2 of GetPositionMatchedIndex, in (2 mm)^2
kEpsTwice == 5

DistSqr(tp, x, y) == (tp.x - x) * (tp.x - x) + (tp.y - y) * (tp.y - y)

\* the scan of GetPositionMatchedIndex from index i on; min_dist_sqr = -1
\* stands for std::numeric_limits<double>::max(), below which every
\* distance lies
RECURSIVE PositionScan(_, _, _, _, _, _)
PositionScan(trajectory, x, y, i, min_dist_sqr, min_index) ==
  IF i >= Len(trajectory) THEN min_index
  ELSE LET dist_sqr == DistSqr(trajectory[i + 1], x, y)
       IN IF min_dist_sqr = -1 \/ 2 * dist_sqr < 2 * min_dist_sqr + kEpsTwice
          THEN PositionScan(trajectory, x, y, i + 1, dist_sqr, i)
          ELSE PositionScan(trajectory, x, y, i + 1, min_dist_sqr, min_index)

GetPositionMatchedIndex(x, y, trajectory) ==
  PositionScan(trajectory, x, y, 0, -1, 0)

\* <<sd.first, sd.second>>; the term n.y() is the number sin(theta), which
\* the code adds to lengths in metres
GetLatAndLonDistFromRefPoint(x, y, point) ==
  LET vx == x - point.x
      vy == y - point.y
      nx == Cos(point.theta)
      ny == Sin(point.theta)
  IN <<vx * nx + ny * Meter + vy + point.s, vx * ny - vy * nx>>

ComputeTrajectoryPointFromVehicleState(cycle_time, state) ==
  TrajectoryPoint(state.x, state.y, state.theta, 0, state.kappa,
                  state.v, state.a, cycle_time)

\* KinoDynamicState::GetNextStateAfterTime: constant acceleration along
\* the current heading
GetNextStateAfterTime(state, t) ==
  LET ds == VelTimesTime(HalfAccTimesTime(state.a, t) + state.v, t)
  IN [state EXCEPT !.x = state.x + Cos(state.theta) * ds,
                   !.y = state.y + Sin(state.theta) * ds,
                   !.v = state.v + AccTimesTime(state.a, t)]

kEpsilon_v == 2      \* 0.1 m/s
kEpsilon_a == 2      \* 0.4 m/s^2

\* either quantity below its threshold taken for standing still
ComputeReinitWhenEitherSmall(cycle_time, state) ==
  IF Abs(state.a) < kEpsilon_a \/ Abs(state.v) < kEpsilon_v
  THEN <<ComputeTrajectoryPointFromVehicleState(cycle_time, state)>>
  ELSE <<ComputeTrajectoryPointFromVehicleState(
           cycle_time, GetNextStateAfterTime(state, cycle_time))>>

ComputeReinitStitchingTrajectory(cycle_time, state) ==
  IF Abs(state.a) < kEpsilon_a /\ Abs(state.v) < kEpsilon_v
  THEN <<ComputeTrajectoryPointFromVehicleState(cycle_time, state)>>
  ELSE <<ComputeTrajectoryPointFromVehicleState(
           cycle_time, GetNextStateAfterTime(state, cycle_time))>>

\* a sign slip in the slice's first index
SliceBeginSignSlip(matched_index, preserve_points_num) ==
  Max(0, matched_index + preserve_points_num)

\* first index of the slice: std::max(0, static_cast<int>(matched_index -
\* preserve_points_num)).  The size_t difference wraps and the cast to int
\* brings it back to the signed difference (both below 2^31 here).
SliceBegin(matched_index, preserve_points_num) ==
  Max(0, matched_index - preserve_points_num)

\* the end left at the forward index itself, so that its point is not copied
SliceEndAtForwardIndex(forward_rel_matched_index) == forward_rel_matched_index

\* end of the slice: begin() + forward_rel_matched_index + 1, one past the
\* forward index
SliceEnd(forward_rel_matched_index) == forward_rel_matched_index + 1

\* vector::assign(begin + from, begin + to): elements from .. to - 1
Slice(points, from, to) == [i \in 1..(to - from) |-> points[from + i]]

\* the loop shifting relative_time only
RebaseTimeOnly(slice, shift) ==
  [i \in 1..Len(slice) |->
     [slice[i] EXCEPT !.relative_time = slice[i].relative_time + shift]]

\* the loop subtracting the s of the slice's first point
RebaseFromFirst(slice, shift) ==
  [i \in 1..Len(slice) |->
     [slice[i] EXCEPT !.relative_time = slice[i].relative_time + shift,
                      !.s = slice[i].s - slice[1].s]]

\* the loop re-basing the position as well
RebasePositionToo(slice, shift) ==
  LET last == slice[Len(slice)]
  IN [i \in 1..Len(slice) |->
        [slice[i] EXCEPT !.relative_time = slice[i].relative_time + shift,
                         !.s = slice[i].s - last.s,
                         !.x = slice[i].x - last.x]]

\* the re-basing loop at the end of GetStitchingTrajectory
Rebase(slice, shift) ==
  LET zero_s == slice[Len(slice)].s
  IN [i \in 1..Len(slice) |->
        [slice[i] EXCEPT !.relative_time = slice[i].relative_time + shift,
                         !.s = slice[i].s - zero_s]]

\* the decisions of GetStitchingTrajectory: whether it returns the reinit
\* point and, if not, the slice [from, to) of the history it copies
StitchingSlice(current_time_stamp, cycle_time, preserve_points_num, has_history, history, state) ==
  LET points == history.trajectory_points
      reinit == [reinit |-> TRUE, from |-> 0, to |-> 0]
  IN
  IF ~has_history THEN reinit
  ELSE IF points = <<>> THEN reinit
  ELSE
    LET relative_time == current_time_stamp - history.stamp
        time_matched_index == GetTimeMatchIndex(relative_time, kEpsTime, points)
    IN
    IF time_matched_index = 0 /\ relative_time < points[1].relative_time THEN reinit
    ELSE IF time_matched_index >= Len(points) - 1 THEN reinit
    ELSE
      LET time_matched_tp == points[time_matched_index + 1]
          position_matched_index == GetPositionMatchedIndex(state.x, state.y, points)
          position_matched_tp == points[position_matched_index + 1]
          sd == GetLatAndLonDistFromRefPoint(state.x, state.y, position_matched_tp)
          lon_diff == time_matched_tp.s - sd[1]
          lat_diff == sd[2]
      IN
      IF Abs(lat_diff) > max_replan_lat_distance_threshold THEN reinit
      ELSE IF Abs(lon_diff) > max_replan_lon_distance_threshold THEN reinit
      ELSE
        LET forward_rel_time == relative_time + cycle_time
            forward_rel_matched_index ==
              GetTimeMatchIndex(forward_rel_time, kEpsTime, points)
            matched_index == Min(position_matched_index, time_matched_index)
        IN [reinit |-> FALSE,
            from |-> SliceBegin(matched_index, preserve_points_num),
            to |-> SliceEnd(forward_rel_matched_index)]

\* has_history_trajectory_ is not looked at: the history is used as it is
GetStitchingTrajectoryIgnoringFlag(current_time_stamp, cycle_time, preserve_points_num, has_history, history, state) ==
  LET slice == StitchingSlice(current_time_stamp, cycle_time, preserve_points_num,
                              TRUE, history, state)
  IN IF slice.reinit
     THEN ComputeReinitStitchingTrajectory(cycle_time, state)
     ELSE Rebase(Slice(history.trajectory_points, slice.from, slice.to),
                 history.stamp - current_time_stamp)

GetStitchingTrajectory(current_time_stamp, cycle_time, preserve_points_num, has_history, history, state) ==
  LET slice == StitchingSlice(current_time_stamp, cycle_time, preserve_points_num,
                              has_history, history, state)
  IN IF slice.reinit
     THEN ComputeReinitStitchingTrajectory(cycle_time, state)
     ELSE Rebase(Slice(history.trajectory_points, slice.from, slice.to),
                 history.stamp - current_time_stamp)

----------------------------------------------------------------------------
(* GenerateEmergencyStopTrajectory *)

\* t <= stop_time, where stop_time = vel / max_decel and max_decel > 0:
\* t * max_decel <= vel, with both sides in units of 1e-6 m/s
NotAfterStopTime(t, vel, max_decel) == t * max_decel <= 50000 * vel

\* the for loop, from iteration i on; l holds last_x, last_y, last_v,
\* last_a, last_theta and last_s, tp is the point the loop keeps rewriting
RECURSIVE EmergencyStopLoop(_, _, _, _, _, _, _, _)
EmergencyStopLoop(i, num_traj_point, kTimeGap, max_decel, init, l, tp, points) ==
  IF i >= num_traj_point THEN points
  ELSE
    LET t  == i * kTimeGap + init.relative_time
        ds == VelTimesTime(HalfAccTimesTime(l.last_a, kTimeGap) + l.last_v, kTimeGap)
        np == [tp EXCEPT
                 !.relative_time = t,
                 !.vel = init.vel - AccTimesTime(l.last_a, kTimeGap),
                 !.acc = IF NotAfterStopTime(t, init.vel, max_decel)
                         THEN -max_decel ELSE 0,
                 !.jerk = 0,
                 !.x = l.last_x + Cos(l.last_theta) * ds,
                 !.y = l.last_y + Sin(l.last_theta) * ds,
                 !.theta = l.last_theta,
                 !.s = l.last_s + ds,
                 !.dkappa = 0,
                 !.kappa = 0,
                 !.steer_angle = init.steer_angle]
        nl == [last_s |-> np.s, last_x |-> np.x, last_y |-> np.y,
               last_theta |-> np.theta, last_v |-> np.vel, last_a |-> np.acc]
    IN EmergencyStopLoop(i + 1, num_traj_point, kTimeGap, max_decel, init,
                         nl, np, Append(points, np))

\* resize without the clear before it: the points already there stay
ResizeOnly(points, num_traj_point) ==
  [i \in 1..num_traj_point |->
     IF i <= Len(points) THEN points[i] ELSE DefaultTrajectoryPoint]

\* trajectory_points.clear(); trajectory_points.resize(num_traj_point)
ClearAndResize(points, num_traj_point) ==
  [i \in 1..num_traj_point |-> DefaultTrajectoryPoint]

\* the points the call leaves in emergency_stop_trajectory, which held
\* `points` before the call
GenerateEmergencyStopTrajectory(init, points) ==
  LET kMaxTrajectoryTime == max_lookahead_time
      kTimeGap == delta_t
      num_traj_point == kMaxTrajectoryTime \div kTimeGap
      max_decel == max_lon_acc
      l  == [last_x |-> init.x, last_y |-> init.y, last_v |-> init.vel,
             last_a |-> max_decel, last_theta |-> init.theta, last_s |-> init.s]
      tp == [init EXCEPT !.relative_time = 0, !.acc = -max_decel]
  IN EmergencyStopLoop(1, num_traj_point, kTimeGap, max_decel, init, l, tp,
                       Append(ClearAndResize(points, num_traj_point), tp))

----------------------------------------------------------------------------
(* GetKeyObstacle *)

\* carla_msgs::CarlaTrafficLightStatus: its state
RED == "RED"
YELLOW == "YELLOW"
GREEN == "GREEN"
UNKNOWN == "UNKNOWN"

\* the kinds of Obstacle the two constructors make: from an object, and
\* from a traffic light's info and status
DYNAMIC_OBJECT == "DYNAMIC_OBJECT"
TRAFFIC_SIGNAL == "TRAFFIC_SIGNAL"

radius == 50 * Meter
height_gate == (3 * Meter) \div 2

\* the gate with the boundary let in
WithinGateInclusive(trajectory_point, position, ego_object) ==
  /\ DistSqr(trajectory_point, position.x, position.y) <= radius * radius
  /\ Abs(position.z - ego_object.z) <= height_gate

\* dist < radius && height_diff < 1.5, with dist the std::hypot of the
\* offsets from the trajectory point: below radius exactly when the sum of
\* the squares is below radius squared
WithinGate(trajectory_point, position, ego_object) ==
  /\ DistSqr(trajectory_point, position.x, position.y) < radius * radius
  /\ Abs(position.z - ego_object.z) < height_gate

Obstacle(type, id, position, state) ==
  [type |-> type, id |-> id, x |-> position.x, y |-> position.y,
   z |-> position.z, state |-> state]

\* the loop over the objects without the test on the ego id
DynamicObstaclesWithEgo(objects, trajectory_point, ego_id) ==
  {Obstacle(DYNAMIC_OBJECT, id, objects[id], "NONE") :
     id \in {i \in DOMAIN objects :
               WithinGate(trajectory_point, objects[i], objects[ego_id])}}

\* the loop over the objects (lines 736-758)
DynamicObstacles(objects, trajectory_point, ego_id) ==
  {Obstacle(DYNAMIC_OBJECT, id, objects[id], "NONE") :
     id \in {i \in DOMAIN objects :
               /\ i # ego_id
               /\ WithinGate(trajectory_point, objects[i], objects[ego_id])}}

\* the loop over the traffic lights (lines 760-792)
SignalObstacles(objects, traffic_light_status_list, traffic_lights_info_list, trajectory_point, ego_id) ==
  {Obstacle(TRAFFIC_SIGNAL, id, traffic_lights_info_list[id],
            traffic_light_status_list[id].state) :
     id \in {i \in DOMAIN traffic_lights_info_list :
               /\ i \in DOMAIN traffic_light_status_list
               /\ traffic_light_status_list[i].state \notin {GREEN, UNKNOWN}
               /\ WithinGate(trajectory_point, traffic_lights_info_list[i],
                             objects[ego_id])}}

\* the obstacles returned; the vector holds them in the iteration order of
\* the unordered maps, objects before traffic lights, and the model keeps
\* them as a set.  PredictTrajectory fills in each obstacle's prediction,
\* which is left out.
GetKeyObstacle(objects, traffic_light_status_list, traffic_lights_info_list, trajectory_point, ego_id) ==
  DynamicObstacles(objects, trajectory_point, ego_id)
    \cup SignalObstacles(objects, traffic_light_status_list,
                         traffic_lights_info_list, trajectory_point, ego_id)

----------------------------------------------------------------------------
(* GetPlanningTargets *)

\* a ReferenceLine as GetPlanningTargets sees it: Length(), and for the
\* planning origin what XYToSL returns (projects) and leaves in sl_point.s,
\* the kappa of GetReferencePoint(sl_point.s) and what IsOnLane returns
ReferenceLine(length, projects, s, kappa, on_lane) ==
  [length |-> length, projects |-> projects, s |-> s, kappa |-> kappa,
   on_lane |-> on_lane]

\* std::numeric_limits<double>::max(), above every length
DBL_MAX == 2147483647

\* the safety margin 50.0 of line 69
stop_margin == 50 * Meter

\* the 1e-4 added to the curvature at line 75
kEpsKappa == 1

\* the curvature taken with its sign
CurvatureLimitSigned(kappa) == (max_lat_acc * 40000) \div (kappa + kEpsKappa)

\* max_lat_acc [0.2 m/s^2] / (|kappa| + 1e-4) [1e-4 1/m], in the units of
\* velocity [0.05 m/s] as the code takes it; the model's curvatures are
\* those for which the division is exact
CurvatureLimit(kappa) == (max_lat_acc * 40000) \div (Abs(kappa) + kEpsKappa)

\* the margin's boundary counted as short
HasStopPointInclusive(ref_line) == ref_line.length <= ref_line.s + stop_margin

\* ref_line.Length() < sl_point.s + 50.0
HasStopPoint(ref_line) == ref_line.length < ref_line.s + stop_margin

\* lines 67-75: the target of a line that projects the origin
PlanningTarget(ref_line) ==
  [ref_lane |-> ref_line,
   has_stop_point |-> HasStopPoint(ref_line),
   stop_s |-> IF HasStopPoint(ref_line) THEN ref_line.length ELSE DBL_MAX,
   is_best_behaviour |-> ref_line.on_lane,
   desired_vel |-> Min(desired_velocity, CurvatureLimit(ref_line.kappa))]

\* the loop without the test on the projection
GetPlanningTargetsOfEveryLine(lines) ==
  [i \in 1..Len(lines) |-> PlanningTarget(lines[i])]

\* the loop left at the first line that does not project
RECURSIVE GetPlanningTargetsUntilFailure(_)
GetPlanningTargetsUntilFailure(lines) ==
  IF lines = <<>> THEN <<>>
  ELSE IF ~lines[1].projects THEN <<>>
  ELSE <<PlanningTarget(lines[1])>>
         \o GetPlanningTargetsUntilFailure(Tail(lines))

\* the loop of lines 62-77
RECURSIVE GetPlanningTargets(_)
GetPlanningTargets(lines) ==
  IF lines = <<>> THEN <<>>
  ELSE IF ~lines[1].projects THEN GetPlanningTargets(Tail(lines))
  ELSE <<PlanningTarget(lines[1])>> \o GetPlanningTargets(Tail(lines))

----------------------------------------------------------------------------
(* What comes from outside the planner *)

ObjectIds == {1, 2}

\* the id CarlaEgoVehicleInfo messages carry: the ego vehicle keeps its id
EgoIds == {1}

\* derived_object_msgs::Object: its pose.position
Objects == {[x |-> 0, y |-> 0, z |-> 0]}

\* the maps an ObjectArray message can leave in objects_map_
ObjectMaps == UNION {[ids -> Objects] : ids \in SUBSET ObjectIds}

\* the ids of the traffic lights
LightIds == {1}

\* carla_msgs::CarlaTrafficLightInfo: its trigger_volume.center
LightInfos == {[x |-> 0, y |-> 0, z |-> 0]}

\* the maps a CarlaTrafficLightStatusList message can leave: no light, or
\* the light red
TrafficLightStatusLists ==
  UNION {[ids -> {[state |-> RED]}] : ids \in SUBSET LightIds}

\* the maps a CarlaTrafficLightInfoList message can leave
TrafficLightInfoLists ==
  UNION {[ids -> LightInfos] : ids \in SUBSET LightIds}

\* the states vehicle_state_->Update can leave in vehicle_state_: at rest at
\* the origin, or moving along x there or a metre further on
VehicleStates ==
  {KinoDynamicState(0, 0, 0, 0, 0, 0, 0),
   KinoDynamicState(0, 0, 0, 0, 0, MPS, 0),
   KinoDynamicState(Meter, 0, 0, 0, 0, MPS, 0)}

\* the time from one reading of ros::Time::now() in RunOnce to the next:
\* one period of the loop, or two when a cycle overran
Delays == {planning_cycle_time, 2 * planning_cycle_time}

\* what Process can leave in optimal_trajectory: no point, one point or
\* MaxOptLen points that start at the planning origin and go on along its
\* heading, one every delta_t, a metre apart
OptimizerPoint(init, k) ==
  [init EXCEPT !.x = init.x + Cos(init.theta) * k * Meter,
               !.y = init.y + Sin(init.theta) * k * Meter,
               !.s = init.s + k * Meter,
               !.vel = MPS,
               !.acc = 0,
               !.relative_time = init.relative_time + k * delta_t]

OptimizerOutputs(init) ==
  {[k \in 1..n |-> OptimizerPoint(init, k - 1)] : n \in {0, 1, MaxOptLen}}

\* what GetReferenceLines can leave in ref_lines when it returns true: a
\* line that does not project the origin, or one that does, 200 m before
\* its end
ReferenceLineLists ==
  {<<ReferenceLine(300 * Meter, FALSE, 0, 0, FALSE)>>,
   <<ReferenceLine(300 * Meter, TRUE, 100 * Meter, 0, TRUE)>>}

----------------------------------------------------------------------------
(* RunOnce *)

\* the second early return left out: only the id is looked at
EgoIdKnown(ego_id, objects) == ego_id # -1

\* the two early returns of RunOnce do not apply
EgoResolved(ego_id, objects) == ego_id # -1 /\ ego_id \in DOMAIN objects

\* the whole prefix inserted, its last point too
SpliceWholePrefix(stitching, points) == stitching \o points

\* optimal_trajectory.trajectory_points.insert(begin(), stitching.begin(),
\* stitching.end() - 1)
Splice(stitching, points) == SubSeq(stitching, 1, Len(stitching) - 1) \o points

\* the status left as Process set it
SuccessStatusAlwaysNormal(points) == NORMAL

\* lines 145-149: EMPTY for no points, NORMAL otherwise
SuccessStatus(points) == IF points = <<>> THEN EMPTY ELSE NORMAL

\* the status assignment forgotten
EmergencyStopResultNoStatus(init_trajectory_point, points, current_time_stamp) ==
  [trajectory_points |-> GenerateEmergencyStopTrajectory(init_trajectory_point, points),
   stamp |-> current_time_stamp,
   status |-> "DEFAULT"]

\* the trajectory both failure branches build and publish; optimal held
\* the points `points` when the branch was entered
EmergencyStopResult(init_trajectory_point, points, current_time_stamp) ==
  [trajectory_points |-> GenerateEmergencyStopTrajectory(init_trajectory_point, points),
   stamp |-> current_time_stamp,
   status |-> EMERGENCYSTOP]

\* the flag left set
HistoryFlagKept == TRUE

\* has_history_trajectory_ after a failure branch
HistoryFlagAfterFailure == FALSE

PrevStatus == IF published = <<>> THEN prev_status ELSE published[1].status

\* the early returns: ego id unknown, or not in objects_map_
RunOnceSkipped(current_time_stamp) ==
  /\ pc = "spinOnce"
  /\ ~EgoResolved(ego_vehicle_id_, objects_map_)
  /\ now' = current_time_stamp
  /\ cycle_log' = <<>>
  /\ published' = <<>>
  /\ prev_status' = PrevStatus
  /\ stitching_trajectory' = <<>>
  /\ obstacles' = {}
  /\ ref_lines' = <<>>
  /\ planning_targets' = <<>>
  /\ optimizer_output' = <<>>
  /\ optimal_trajectory' = DefaultTrajectory
  /\ UNCHANGED <<launch, ego_object_,
                 ego_vehicle_id_, objects_map_, lights, vehicle_state_,
                 preserve_history_trajectory_point_num,
                 has_history_trajectory_, history_trajectory_>>

\* the cycle from vehicle_state_->Update on; state is what Update leaves in
\* vehicle_state_, ref_ok and lines what GetReferenceLines returns and leaves
\* in ref_lines, process_ok and output what Process returns and leaves in
\* optimal_trajectory
RunOncePlanned(current_time_stamp, state, ref_ok, lines, process_ok, output) ==
  LET stitching == GetStitchingTrajectory(current_time_stamp, planning_cycle_time,
                                          preserve_history_trajectory_point_num,
                                          has_history_trajectory_,
                                          history_trajectory_, state)
      init_trajectory_point == stitching[Len(stitching)]
      head == <<"GetStitchingTrajectory", "UpdateVehicleState",
                IF ref_ok THEN "GetReferenceLines -> true"
                ELSE "GetReferenceLines -> false">>
  IN
  /\ pc = "spinOnce"
  /\ EgoResolved(ego_vehicle_id_, objects_map_)
  /\ now' = current_time_stamp
  /\ ego_object_' = ObjectOf(objects_map_, ego_vehicle_id_)
  /\ vehicle_state_' = state
  /\ stitching_trajectory' = stitching
  /\ prev_status' = PrevStatus
  /\ UNCHANGED <<launch, ego_vehicle_id_, objects_map_, lights,
                 preserve_history_trajectory_point_num>>
  /\ obstacles' = IF ref_ok
                  THEN GetKeyObstacle(objects_map_, traffic_light_status_list_,
                                      traffic_lights_info_list_,
                                      init_trajectory_point, ego_vehicle_id_)
                  ELSE {}
  /\ ref_lines' = lines
  /\ planning_targets' = IF ref_ok THEN GetPlanningTargets(lines) ELSE <<>>
  /\ \/ /\ ~ref_ok
        /\ optimizer_output' = <<>>
        /\ published' = <<EmergencyStopResult(init_trajectory_point, <<>>,
                                              current_time_stamp)>>
        /\ has_history_trajectory_' = HistoryFlagAfterFailure
        /\ cycle_log' = head \o <<"GenerateEmergencyStopTrajectory", "publish">>
        /\ UNCHANGED history_trajectory_
     \/ /\ ref_ok
        /\ ~process_ok
        /\ optimizer_output' = output
        /\ published' = <<EmergencyStopResult(init_trajectory_point, output,
                                              current_time_stamp)>>
        /\ has_history_trajectory_' = HistoryFlagAfterFailure
        /\ cycle_log' = head \o <<"GetKeyObstacle", "GetPlanningTargets",
                                   "Process -> false",
                                   "GenerateEmergencyStopTrajectory", "publish">>
        /\ UNCHANGED history_trajectory_
     \/ /\ ref_ok
        /\ process_ok
        /\ optimizer_output' = output
        /\ LET points == Splice(stitching, output)
               optimal == [trajectory_points |-> points,
                           stamp |-> current_time_stamp,
                           status |-> SuccessStatus(points)]
           IN /\ history_trajectory_' = optimal
              /\ has_history_trajectory_' = TRUE
              /\ published' = <<optimal>>
        /\ cycle_log' = head \o <<"GetKeyObstacle", "GetPlanningTargets",
                                   "Process -> true", "publish">>
  /\ optimal_trajectory' = published'[1]

RunOnce ==
  \E d \in Delays :
    /\ now + d <= MaxCycles * planning_cycle_time
    /\ \/ RunOnceSkipped(now + d)
       \/ \E state \in VehicleStates :
            LET stitching == GetStitchingTrajectory(
                               now + d, planning_cycle_time,
                               preserve_history_trajectory_point_num,
                               has_history_trajectory_, history_trajectory_, state)
            IN \/ RunOncePlanned(now + d, state, FALSE, <<>>, FALSE, <<>>)
               \/ \E lines \in ReferenceLineLists, process_ok \in BOOLEAN,
                     output \in OptimizerOutputs(stitching[Len(stitching)]) :
                    RunOncePlanned(now + d, state, TRUE, lines, process_ok, output)

----------------------------------------------------------------------------
(* The inbound handlers (InitSubscriber) *)

\* the subscribers' callbacks run inside ros::spinOnce() whatever the point
\* of the loop
HandlersMayRunAnyTime == TRUE

\* the subscribers' callbacks run inside ros::spinOnce(), which Launch calls
\* before RunOnce on the same thread (lines 50-51)
HandlersMayRun == pc = "spinOnce"

\* ego_vehicle_info_subscriber_
EgoVehicleInfoCallback ==
  /\ HandlersMayRun
  /\ \E id \in EgoIds : ego_vehicle_id_' = id
  /\ UNCHANGED <<launch, ego_object_, optimal_trajectory, now, objects_map_, lights, vehicle_state_,
                 preserve_history_trajectory_point_num, has_history_trajectory_,
                 history_trajectory_, stitching_trajectory, obstacles, targets,
                 published, prev_status, cycle_log, optimizer_output>>

\* objects_subscriber_
ObjectsCallback ==
  /\ HandlersMayRun
  /\ \E m \in ObjectMaps : objects_map_' = m
  /\ UNCHANGED <<launch, ego_object_, optimal_trajectory, now, ego_vehicle_id_, lights, vehicle_state_,
                 preserve_history_trajectory_point_num, has_history_trajectory_,
                 history_trajectory_, stitching_trajectory, obstacles, targets,
                 published, prev_status, cycle_log, optimizer_output>>

\* traffic_lights_subscriber_: the map is rebuilt from the message
TrafficLightStatusCallback ==
  /\ HandlersMayRun
  /\ \E m \in TrafficLightStatusLists : traffic_light_status_list_' = m
  /\ UNCHANGED <<launch, ego_object_, optimal_trajectory, now, ego_vehicle_id_, objects_map_, traffic_lights_info_list_,
                 vehicle_state_,
                 preserve_history_trajectory_point_num, has_history_trajectory_,
                 history_trajectory_, stitching_trajectory, obstacles, targets,
                 published, prev_status, cycle_log, optimizer_output>>

\* traffic_lights_info_subscriber_: the map is rebuilt from the message
TrafficLightInfoCallback ==
  /\ HandlersMayRun
  /\ \E m \in TrafficLightInfoLists : traffic_lights_info_list_' = m
  /\ UNCHANGED <<launch, ego_object_, optimal_trajectory, now, ego_vehicle_id_, objects_map_, traffic_light_status_list_,
                 vehicle_state_,
                 preserve_history_trajectory_point_num, has_history_trajectory_,
                 history_trajectory_, stitching_trajectory, obstacles, targets,
                 published, prev_status, cycle_log, optimizer_output>>

\* the CarlaEgoVehicleStatus messages: of the vehicle moving
EgoVehicleStatuses == {[velocity |-> MPS]}

\* ego_vehicle_subscriber_
EgoVehicleStatusCallback ==
  /\ HandlersMayRun
  /\ \E status \in EgoVehicleStatuses : ego_vehicle_status_' = status
  /\ UNCHANGED <<pc, route_requests, ego_object_, optimal_trajectory, now,
                 ego_vehicle_id_, objects_map_, lights, vehicle_state_,
                 preserve_history_trajectory_point_num, has_history_trajectory_,
                 history_trajectory_, stitching_trajectory, obstacles, targets,
                 published, prev_status, cycle_log, optimizer_output>>

\* the goal poses delivered: 100 m ahead of the origin
GoalPoses == {Pose(100 * Meter, 0, 0, 0)}

\* get_ego_vehicle_route_client_.call(srv) of the request made for the
\* delivery of goal_pose, and what it returned (line 884)
RoutePlanServiceCall(goal_pose, request, ok) ==
  [goal_pose |-> goal_pose, request |-> request, ok |-> ok]

\* the request GetEgoVehicleRoutes sends to the route service (lines 880-883)
RoutePlanServiceRequest(start_pose, destination) ==
  [start_pose |-> start_pose, end_pose |-> destination]

\* goal_pose_subscriber_ with GetEgoVehicleRoutes: the call fails or
\* succeeds; the response of a call that succeeded goes to the reference
\* generator (line 887), and both returns of GetEgoVehicleRoutes end the
\* handler (lines 234-236)
GoalPoseCallback ==
  /\ HandlersMayRun
  /\ Len(route_requests) < MaxRouteRequests
  /\ \E goal_pose \in GoalPoses :
       IF ego_vehicle_id_ = -1
       THEN UNCHANGED route_requests
       ELSE LET state == vehicle_state_
                start_pose == Pose(state.x, state.y, state.z, state.theta)
                destination == DefaultPose
            IN \E ok \in BOOLEAN :
                 route_requests' =
                   Append(route_requests,
                          RoutePlanServiceCall(
                            goal_pose,
                            RoutePlanServiceRequest(start_pose, destination),
                            ok))
  /\ UNCHANGED <<pc, ego_vehicle_status_, ego_object_, optimal_trajectory, now,
                 ego_vehicle_id_, objects_map_, lights, vehicle_state_,
                 preserve_history_trajectory_point_num, has_history_trajectory_,
                 history_trajectory_, stitching_trajectory, obstacles, targets,
                 published, prev_status, cycle_log, optimizer_output>>

----------------------------------------------------------------------------

Init ==
  /\ now = 0
  /\ ego_vehicle_id_ = -1
  /\ objects_map_ = <<>>
  /\ traffic_light_status_list_ = <<>>
  /\ traffic_lights_info_list_ = <<>>
  /\ vehicle_state_ = KinoDynamicState(0, 0, 0, 0, 0, 0, 0)
  /\ preserve_history_trajectory_point_num = MaxPreserve
  /\ has_history_trajectory_ = FALSE
  /\ history_trajectory_ = DefaultTrajectory
  /\ stitching_trajectory = <<>>
  /\ obstacles = {}
  /\ ref_lines = <<>>
  /\ planning_targets = <<>>
  /\ published = <<>>
  /\ prev_status = "NONE"
  /\ cycle_log = <<>>
  /\ optimizer_output = <<>>
  /\ pc = "spinOnce"
  /\ ego_vehicle_status_ = DefaultEgoVehicleStatus
  /\ ego_object_ = DefaultObject
  /\ route_requests = <<>>
  /\ optimal_trajectory = DefaultTrajectory

Next ==
  \/ RunOnce
  \/ EgoVehicleInfoCallback
  \/ ObjectsCallback
  \/ TrafficLightStatusCallback
  \/ TrafficLightInfoCallback

Spec == Init /\ [][Next]_vars

----------------------------------------------------------------------------
(* Launch's loop with RunOnce taken call by call: the handlers run in      *)
(* spinOnce, and RunOnce goes from one call or branch to the next.  Its    *)
(* locals are empty outside the call; cycle_log, prev_status and           *)
(* optimizer_output, which describe RunOnce taken as one step, stay as     *)
(* they are.                                                               *)

\* what every step inside RunOnce leaves alone
world == <<ego_vehicle_id_, objects_map_, lights, ego_vehicle_status_,
           route_requests, preserve_history_trajectory_point_num>>

\* RunOnce returns: its locals are gone, and the loop is back in spinOnce
\* after loop_rate.sleep()
Return ==
  /\ pc' = "spinOnce"
  /\ stitching_trajectory' = <<>>
  /\ obstacles' = {}
  /\ ref_lines' = <<>>
  /\ planning_targets' = <<>>
  /\ optimal_trajectory' = DefaultTrajectory

\* lines 82-93: the time is read, the ego is looked up and the vehicle
\* state updated, or RunOnce returns early
RunOnceBegin ==
  /\ pc = "spinOnce"
  /\ \E d \in Delays :
       /\ now + d <= MaxLaunchCycles * planning_cycle_time
       /\ now' = now + d
  /\ published' = <<>>
  /\ \/ /\ ~EgoResolved(ego_vehicle_id_, objects_map_)
        /\ UNCHANGED <<pc, ego_object_, vehicle_state_>>
     \/ /\ EgoResolved(ego_vehicle_id_, objects_map_)
        /\ ego_object_' = ObjectOf(objects_map_, ego_vehicle_id_)
        /\ \E state \in VehicleStates : vehicle_state_' = state
        /\ pc' = "GetStitchingTrajectory"
  /\ UNCHANGED <<world, has_history_trajectory_, history_trajectory_,
                 stitching_trajectory, obstacles, targets, optimal_trajectory,
                 prev_status, cycle_log, optimizer_output>>

\* lines 94-98
RunOnceGetStitchingTrajectory ==
  /\ pc = "GetStitchingTrajectory"
  /\ stitching_trajectory' =
       GetStitchingTrajectory(now, planning_cycle_time,
                              preserve_history_trajectory_point_num,
                              has_history_trajectory_, history_trajectory_,
                              vehicle_state_)
  /\ pc' = "GetReferenceLines"
  /\ UNCHANGED <<world, now, ego_object_, vehicle_state_,
                 has_history_trajectory_, history_trajectory_, obstacles,
                 targets, optimal_trajectory, published, prev_status, cycle_log,
                 optimizer_output>>

\* lines 103-106: GetReferenceLines fails, or leaves lines in ref_lines
RunOnceGetReferenceLines ==
  /\ pc = "GetReferenceLines"
  /\ \/ /\ pc' = "GenerateEmergencyStopTrajectory"
        /\ UNCHANGED ref_lines
     \/ /\ \E lines \in ReferenceLineLists : ref_lines' = lines
        /\ pc' = "GetKeyObstacle"
  /\ UNCHANGED <<world, now, ego_object_, vehicle_state_,
                 has_history_trajectory_, history_trajectory_,
                 stitching_trajectory, obstacles, planning_targets,
                 optimal_trajectory, published, prev_status, cycle_log,
                 optimizer_output>>

\* lines 119-124; objects.at(ego_id) throws when the id is not in the map,
\* and nothing catches it
RunOnceGetKeyObstacle ==
  /\ pc = "GetKeyObstacle"
  /\ IF ego_vehicle_id_ \in DOMAIN objects_map_
     THEN /\ obstacles' =
               GetKeyObstacle(objects_map_, traffic_light_status_list_,
                              traffic_lights_info_list_,
                              stitching_trajectory[Len(stitching_trajectory)],
                              ego_vehicle_id_)
          /\ pc' = "GetPlanningTargets"
     ELSE /\ pc' = "terminate"
          /\ UNCHANGED obstacles
  /\ UNCHANGED <<world, now, ego_object_, vehicle_state_,
                 has_history_trajectory_, history_trajectory_,
                 stitching_trajectory, targets, optimal_trajectory, published,
                 prev_status, cycle_log, optimizer_output>>

\* line 128
RunOnceGetPlanningTargets ==
  /\ pc = "GetPlanningTargets"
  /\ planning_targets' = GetPlanningTargets(ref_lines)
  /\ pc' = "Process"
  /\ UNCHANGED <<world, now, ego_object_, vehicle_state_,
                 has_history_trajectory_, history_trajectory_,
                 stitching_trajectory, obstacles, ref_lines, optimal_trajectory,
                 published, prev_status, cycle_log, optimizer_output>>

\* lines 129-132: Process leaves its output in optimal_trajectory and
\* returns true or false
RunOnceProcess ==
  /\ pc = "Process"
  /\ \E output \in OptimizerOutputs(stitching_trajectory[Len(stitching_trajectory)]) :
       optimal_trajectory' = [optimal_trajectory EXCEPT !.trajectory_points = output]
  /\ pc' \in {"success", "GenerateEmergencyStopTrajectory"}
  /\ UNCHANGED <<world, now, ego_object_, vehicle_state_,
                 has_history_trajectory_, history_trajectory_,
                 stitching_trajectory, obstacles, targets, published,
                 prev_status, cycle_log, optimizer_output>>

HistoryFlagClearedByEmergencyStop(flag) == FALSE

\* has_history_trajectory_ after GenerateEmergencyStopTrajectory, a member
\* function that writes nothing but the trajectory it is handed (lines
\* 451-475)
HistoryFlagAfterEmergencyStop(flag) == flag

\* lines 107 and 133
RunOnceGenerateEmergencyStopTrajectory ==
  /\ pc = "GenerateEmergencyStopTrajectory"
  /\ optimal_trajectory' =
       [optimal_trajectory EXCEPT !.trajectory_points =
          GenerateEmergencyStopTrajectory(
            stitching_trajectory[Len(stitching_trajectory)],
            optimal_trajectory.trajectory_points)]
  /\ has_history_trajectory_' =
       HistoryFlagAfterEmergencyStop(has_history_trajectory_)
  /\ pc' = "failure"
  /\ UNCHANGED <<world, now, ego_object_, vehicle_state_, history_trajectory_,
                 stitching_trajectory, obstacles, targets, published,
                 prev_status, cycle_log, optimizer_output>>

\* lines 108-112 and 134-138
RunOnceFailure ==
  /\ pc = "failure"
  /\ has_history_trajectory_' = HistoryFlagAfterFailure
  /\ published' = <<[optimal_trajectory EXCEPT !.stamp = now,
                                               !.status = EMERGENCYSTOP]>>
  /\ Return
  /\ UNCHANGED <<world, now, ego_object_, vehicle_state_, history_trajectory_,
                 prev_status, cycle_log, optimizer_output>>

\* lines 142-155
RunOnceSuccess ==
  /\ pc = "success"
  /\ LET points == Splice(stitching_trajectory, optimal_trajectory.trajectory_points)
         optimal == [trajectory_points |-> points,
                     stamp |-> now,
                     status |-> SuccessStatus(points)]
     IN /\ history_trajectory_' = optimal
        /\ has_history_trajectory_' = TRUE
        /\ published' = <<optimal>>
  /\ Return
  /\ UNCHANGED <<world, now, ego_object_, vehicle_state_, prev_status,
                 cycle_log, optimizer_output>>

NextLaunch ==
  \/ EgoVehicleStatusCallback
  \/ TrafficLightStatusCallback
  \/ TrafficLightInfoCallback
  \/ EgoVehicleInfoCallback
  \/ ObjectsCallback
  \/ GoalPoseCallback
  \/ RunOnceBegin
  \/ RunOnceGetStitchingTrajectory
  \/ RunOnceGetReferenceLines
  \/ RunOnceGetKeyObstacle
  \/ RunOnceGetPlanningTargets
  \/ RunOnceProcess
  \/ RunOnceGenerateEmergencyStopTrajectory
  \/ RunOnceFailure
  \/ RunOnceSuccess

SpecLaunch == Init /\ [][NextLaunch]_vars

----------------------------------------------------------------------------
(* GetStitchingTrajectory by itself, on every planner state within the     *)
(* bounds                                                                  *)

\* points of a vehicle that hardly moves: 2 mm to the front and to the side
\* of the origin after one cycle period, 4 mm to the front after two
CreepingPoints ==
  {TrajectoryPoint(1, 1, 0, 1, 0, 0, 0, planning_cycle_time),
   TrajectoryPoint(2, 0, 0, 2, 0, 0, 0, 2 * planning_cycle_time)}

\* history points: on the x axis, at the origin, a metre or three metres on,
\* with s the distance from the origin and relative_time a whole number of
\* cycle periods
HistoryPoints ==
  {TrajectoryPoint(x, 0, 0, x, 0, MPS, 0, k * planning_cycle_time) :
     x \in {0, Meter, 3 * Meter}, k \in 0..2}
    \cup CreepingPoints

NonDecreasingTime(points) ==
  \A i \in 1..(Len(points) - 1) : points[i].relative_time <= points[i + 1].relative_time

NonDecreasingS(points) ==
  \A i \in 1..(Len(points) - 1) : points[i].s <= points[i + 1].s

\* the histories: stamped 0, of up to MaxHistLen points, in time order and
\* going forward along the path
Histories ==
  {[trajectory_points |-> points, stamp |-> 0, status |-> NORMAL] :
     points \in {p \in UNION {[1..n -> HistoryPoints] : n \in 0..MaxHistLen} :
                   NonDecreasingTime(p) /\ NonDecreasingS(p)}}

\* the current times: on a point's time, within the tolerance after it, just
\* beyond the tolerance, and after every point
StitchTimes ==
  {0, planning_cycle_time, planning_cycle_time + kEpsTime,
   planning_cycle_time + kEpsTime + 1, 3 * planning_cycle_time}

\* the vehicle states: those of the cycle; a metre to the side of the
\* origin; half a metre to the side, which is as far as the lateral
\* threshold allows; at 5 m/s; and heading along y while speeding up
StitchVehicleStates ==
  VehicleStates \cup {KinoDynamicState(0, Meter, 0, 0, 0, MPS, 0),
                      KinoDynamicState(0, Meter \div 2, 0, 0, 0, MPS, 0),
                      KinoDynamicState(0, 0, 0, 0, 0, 5 * MPS, 0),
                      KinoDynamicState(0, 0, 0, 1, 0, 0, MPS2)}

InitStitch ==
  /\ now \in StitchTimes
  /\ ego_vehicle_id_ = -1
  /\ objects_map_ = <<>>
  /\ traffic_light_status_list_ = <<>>
  /\ traffic_lights_info_list_ = <<>>
  /\ obstacles = {}
  /\ ref_lines = <<>>
  /\ planning_targets = <<>>
  /\ vehicle_state_ \in StitchVehicleStates
  /\ preserve_history_trajectory_point_num \in 0..MaxPreserve
  /\ has_history_trajectory_ \in BOOLEAN
  /\ history_trajectory_ \in Histories
  /\ stitching_trajectory = <<>>
  /\ published = <<>>
  /\ prev_status = "NONE"
  /\ cycle_log = <<>>
  /\ optimizer_output = <<>>
  /\ pc = "spinOnce"
  /\ ego_vehicle_status_ = DefaultEgoVehicleStatus
  /\ ego_object_ = DefaultObject
  /\ route_requests = <<>>
  /\ optimal_trajectory = DefaultTrajectory

\* the call RunOnce makes, with the planner's state as it is
CallGetStitchingTrajectory ==
  /\ cycle_log = <<>>
  /\ stitching_trajectory' =
       GetStitchingTrajectory(now, planning_cycle_time,
                              preserve_history_trajectory_point_num,
                              has_history_trajectory_, history_trajectory_,
                              vehicle_state_)
  /\ cycle_log' = <<"GetStitchingTrajectory">>
  /\ UNCHANGED <<launch, ego_object_, optimal_trajectory, now, ego_vehicle_id_, objects_map_, lights, vehicle_state_,
                 preserve_history_trajectory_point_num, has_history_trajectory_,
                 history_trajectory_, obstacles, targets, published, prev_status,
                 optimizer_output>>

NextStitch == CallGetStitchingTrajectory

SpecStitch == InitStitch /\ [][NextStitch]_vars

----------------------------------------------------------------------------
(* GetKeyObstacle by itself, on the maps and planning origins within the    *)
(* bounds                                                                  *)

ObstacleIds == {1, 2, 3}

\* positions of objects: at the origin, 50 m from it along x, 50 m from it
\* at (30 m, 40 m), and 1.5 m above it
ObstacleObjects ==
  {[x |-> 0, y |-> 0, z |-> 0],
   [x |-> 50 * Meter, y |-> 0, z |-> 0],
   [x |-> 30 * Meter, y |-> 40 * Meter, z |-> 0],
   [x |-> 0, y |-> 0, z |-> (3 * Meter) \div 2]}

ObstacleObjectMaps == UNION {[ids -> ObstacleObjects] : ids \in SUBSET ObstacleIds}

ObstacleLightIds == {1, 2}

ObstacleStatusLists ==
  UNION {[ids -> {[state |-> RED], [state |-> YELLOW], [state |-> GREEN],
                  [state |-> UNKNOWN]}] :
           ids \in SUBSET ObstacleLightIds}

\* trigger volumes centred at the origin or 50 m from it
ObstacleInfoLists ==
  UNION {[ids -> {[x |-> 0, y |-> 0, z |-> 0], [x |-> 50 * Meter, y |-> 0, z |-> 0]}] :
           ids \in SUBSET ObstacleLightIds}

\* the planning origins: the reinit point of a vehicle at rest at the
\* origin or a metre further along x
ObstacleOrigins ==
  {ComputeTrajectoryPointFromVehicleState(
     planning_cycle_time, KinoDynamicState(x, 0, 0, 0, 0, 0, 0)) : x \in {0, Meter}}

\* RunOnce calls GetKeyObstacle only with the ego id in objects_map_
InitObstacle ==
  /\ now = 0
  /\ ego_vehicle_id_ \in {1, 2}
  /\ objects_map_ \in ObstacleObjectMaps
  /\ ego_vehicle_id_ \in DOMAIN objects_map_
  /\ traffic_light_status_list_ \in ObstacleStatusLists
  /\ traffic_lights_info_list_ \in ObstacleInfoLists
  /\ vehicle_state_ = KinoDynamicState(0, 0, 0, 0, 0, 0, 0)
  /\ preserve_history_trajectory_point_num = MaxPreserve
  /\ has_history_trajectory_ = FALSE
  /\ history_trajectory_ = DefaultTrajectory
  /\ stitching_trajectory \in {<<origin>> : origin \in ObstacleOrigins}
  /\ obstacles = {}
  /\ ref_lines = <<>>
  /\ planning_targets = <<>>
  /\ published = <<>>
  /\ prev_status = "NONE"
  /\ cycle_log = <<>>
  /\ optimizer_output = <<>>
  /\ pc = "spinOnce"
  /\ ego_vehicle_status_ = DefaultEgoVehicleStatus
  /\ ego_object_ = DefaultObject
  /\ route_requests = <<>>
  /\ optimal_trajectory = DefaultTrajectory

\* the call RunOnce makes, with the planner's state as it is
CallGetKeyObstacle ==
  /\ cycle_log = <<>>
  /\ obstacles' = GetKeyObstacle(objects_map_, traffic_light_status_list_,
                                 traffic_lights_info_list_,
                                 stitching_trajectory[Len(stitching_trajectory)],
                                 ego_vehicle_id_)
  /\ cycle_log' = <<"GetKeyObstacle">>
  /\ UNCHANGED <<launch, ego_object_, optimal_trajectory, now, ego_vehicle_id_, objects_map_, lights, vehicle_state_,
                 preserve_history_trajectory_point_num, has_history_trajectory_,
                 history_trajectory_, stitching_trajectory, targets, published,
                 prev_status, optimizer_output>>

NextObstacle == CallGetKeyObstacle

SpecObstacle == InitObstacle /\ [][NextObstacle]_vars

----------------------------------------------------------------------------
(* GetPlanningTargets by itself, on the reference lines within the bounds  *)

\* lines that project the origin: 100 m long with the origin projected 40 m
\* or 50 m before the end, or 300 m long with 200 m left; straight, or
\* curved so that max_lat_acc / (|kappa| + 1e-4) is 10 m/s (to the one
\* side) or 5 m/s (to the other); on the lane or off it
ProjectingLines ==
  {ReferenceLine(ls[1], TRUE, ls[2], kappa, on_lane) :
     ls \in {<<100 * Meter, 60 * Meter>>, <<100 * Meter, 50 * Meter>>,
             <<300 * Meter, 100 * Meter>>},
     kappa \in {0, 3999, -7999},
     on_lane \in BOOLEAN}

\* lines XYToSL fails on
NonProjectingLines ==
  {ReferenceLine(length, FALSE, 0, 0, FALSE) : length \in {100 * Meter, 300 * Meter}}

TargetReferenceLines ==
  UNION {[1..n -> ProjectingLines \cup NonProjectingLines] : n \in 0..MaxRefLines}

InitTargets ==
  /\ now = 0
  /\ ego_vehicle_id_ = 1
  /\ objects_map_ = [id \in {1} |-> [x |-> 0, y |-> 0, z |-> 0]]
  /\ traffic_light_status_list_ = <<>>
  /\ traffic_lights_info_list_ = <<>>
  /\ vehicle_state_ = KinoDynamicState(0, 0, 0, 0, 0, 0, 0)
  /\ preserve_history_trajectory_point_num = MaxPreserve
  /\ has_history_trajectory_ = FALSE
  /\ history_trajectory_ = DefaultTrajectory
  /\ stitching_trajectory =
       <<ComputeTrajectoryPointFromVehicleState(planning_cycle_time, vehicle_state_)>>
  /\ obstacles = {}
  /\ ref_lines \in TargetReferenceLines
  /\ planning_targets = <<>>
  /\ published = <<>>
  /\ prev_status = "NONE"
  /\ cycle_log = <<>>
  /\ optimizer_output = <<>>
  /\ pc = "spinOnce"
  /\ ego_vehicle_status_ = DefaultEgoVehicleStatus
  /\ ego_object_ = DefaultObject
  /\ route_requests = <<>>
  /\ optimal_trajectory = DefaultTrajectory

\* the call RunOnce makes, with the lines GetReferenceLines left
CallGetPlanningTargets ==
  /\ cycle_log = <<>>
  /\ planning_targets' = GetPlanningTargets(ref_lines)
  /\ cycle_log' = <<"GetPlanningTargets">>
  /\ UNCHANGED <<launch, ego_object_, optimal_trajectory, now, ego_vehicle_id_, objects_map_, lights, vehicle_state_,
                 preserve_history_trajectory_point_num, has_history_trajectory_,
                 history_trajectory_, stitching_trajectory, obstacles, ref_lines,
                 published, prev_status, optimizer_output>>

NextTargets == CallGetPlanningTargets

SpecTargets == InitTargets /\ [][NextTargets]_vars

----------------------------------------------------------------------------
(* Properties *)

\* the slice decision of the call CallGetStitchingTrajectory made
CalledSlice ==
  StitchingSlice(now, planning_cycle_time, preserve_history_trajectory_point_num,
                 has_history_trajectory_, history_trajectory_, vehicle_state_)

\* C1: whatever the history (absent, empty or not), the current time, the
\* vehicle state and the preserve count, GetStitchingTrajectory returns at
\* least one point, and when it copies a slice of the history the slice's
\* first index is below its end index and both lie inside the history.
C1_StitchingNeverEmpty ==
  cycle_log = <<"GetStitchingTrajectory">> =>
    /\ Len(stitching_trajectory) >= 1
    /\ ~CalledSlice.reinit =>
         /\ 0 <= CalledSlice.from
         /\ CalledSlice.from < CalledSlice.to
         /\ CalledSlice.to <= Len(history_trajectory_.trajectory_points)
         /\ Len(stitching_trajectory) = CalledSlice.to - CalledSlice.from

\* C1 witness: a slice was copied, of two points or more, with the preserve
\* count at work
C1_Witness ==
  /\ cycle_log = <<"GetStitchingTrajectory">>
  /\ ~CalledSlice.reinit
  /\ preserve_history_trajectory_point_num > 0
  /\ Len(stitching_trajectory) >= 2


\* a step of RunOnce: nothing else reads the clock
RunOnceStep == now' # now

Statuses == {NORMAL, EMPTY, EMERGENCYSTOP}

\* how often RunOnce called `call` in its last cycle
Calls(log, call) == Cardinality({i \in 1..Len(log) : log[i] = call})

\* C2: a cycle that finds the ego id known and in objects_map_ publishes
\* exactly one trajectory, with status NORMAL, EMPTY or EMERGENCYSTOP,
\* whatever GetReferenceLines and Process return.
C2_OnePublicationPerCycle ==
  [][(RunOnceStep /\ ego_vehicle_id_ # -1 /\ ego_vehicle_id_ \in DOMAIN objects_map_)
       => /\ Len(published') = 1
          /\ Calls(cycle_log', "publish") = 1
          /\ published'[1].status \in Statuses]_vars

\* C2 witness: a cycle in which Process failed has published one trajectory
C2_Witness ==
  /\ Calls(cycle_log, "Process -> false") = 1
  /\ Calls(cycle_log, "publish") = 1
  /\ Len(published) = 1
  /\ published[1].status \in Statuses

\* the planning origin of the last cycle
InitTrajectoryPoint == stitching_trajectory[Len(stitching_trajectory)]

\* C3: when Process returns false the cycle publishes an EMERGENCYSTOP
\* trajectory whose points are those the emergency-stop generator builds
\* from the planning origin alone, nothing of what Process left behind;
\* has_history_trajectory_ becomes false and history_trajectory_ stays.
C3_ProcessFailure ==
  [][(RunOnceStep /\ Calls(cycle_log', "Process -> false") = 1)
       => /\ Len(published') = 1
          /\ published'[1].status = EMERGENCYSTOP
          /\ published'[1].trajectory_points =
               GenerateEmergencyStopTrajectory(InitTrajectoryPoint', <<>>)
          /\ has_history_trajectory_' = FALSE
          /\ history_trajectory_' = history_trajectory_]_vars

\* C3 witness: Process failed after leaving points behind, while a history
\* was held
C3_Witness ==
  /\ Calls(cycle_log, "Process -> false") = 1
  /\ optimizer_output # <<>>
  /\ history_trajectory_.trajectory_points # <<>>
  /\ published[1].status = EMERGENCYSTOP
  /\ ~has_history_trajectory_

\* C4: when GetReferenceLines returns false the cycle publishes an
\* EMERGENCYSTOP trajectory, sets has_history_trajectory_ to false and
\* returns without GetKeyObstacle, GetPlanningTargets or Process.
C4_NoReferenceLines ==
  [][(RunOnceStep /\ Calls(cycle_log', "GetReferenceLines -> false") = 1)
       => /\ Len(published') = 1
          /\ published'[1].status = EMERGENCYSTOP
          /\ has_history_trajectory_' = FALSE
          /\ \A i \in 1..Len(cycle_log') :
               cycle_log'[i] \notin {"GetKeyObstacle", "GetPlanningTargets",
                                     "Process -> true", "Process -> false"}
          /\ optimizer_output' = <<>>]_vars

\* C4 witness: GetReferenceLines failed in a cycle that began with a history
C4_Witness ==
  /\ Calls(cycle_log, "GetReferenceLines -> false") = 1
  /\ Len(stitching_trajectory) >= 2
  /\ published[1].status = EMERGENCYSTOP
  /\ ~has_history_trajectory_

\* C5: after a cycle that published EMERGENCYSTOP, the next cycle with the
\* ego resolved gets a stitching result of exactly one point, whatever
\* cycles without ego and deliveries lie between and whatever
\* history_trajectory_ still holds.
C5_ReinitAfterEmergencyStop ==
  (cycle_log # <<>> /\ prev_status = EMERGENCYSTOP)
    => Len(stitching_trajectory) = 1

\* C5 witness: such a cycle, two periods after the stamp of a history of
\* three points or more that is still held
C5_Witness ==
  /\ cycle_log # <<>>
  /\ prev_status = EMERGENCYSTOP
  /\ Len(history_trajectory_.trajectory_points) >= 3
  /\ now - history_trajectory_.stamp = 2 * planning_cycle_time
  /\ Calls(cycle_log, "Process -> false") = 1
  /\ Len(stitching_trajectory) = 1

\* C6: on success the published points are the stitching prefix without its
\* last point, then what Process returned; the status is EMPTY exactly when
\* there is no point and NORMAL otherwise; the stamp is the time the cycle
\* read; and that trajectory is the new history, with the flag set.
C6_SuccessSplice ==
  [][(RunOnceStep /\ Calls(cycle_log', "Process -> true") = 1)
       => /\ Len(published') = 1
          /\ published'[1].trajectory_points =
               SubSeq(stitching_trajectory', 1, Len(stitching_trajectory') - 1)
                 \o optimizer_output'
          /\ (published'[1].status = EMPTY) <=>
               (published'[1].trajectory_points = <<>>)
          /\ published'[1].status \in {EMPTY, NORMAL}
          /\ published'[1].stamp = now'
          /\ history_trajectory_' = published'[1]
          /\ has_history_trajectory_' = TRUE]_vars

\* C6 witness: a success that put a prefix of a point or more before what
\* Process returned
C6_Witness ==
  /\ Calls(cycle_log, "Process -> true") = 1
  /\ Len(stitching_trajectory) >= 2
  /\ optimizer_output # <<>>
  /\ published[1].status = NORMAL
  /\ history_trajectory_ = published[1]

\* C7: a cycle with the ego id unknown (-1), or known but absent from
\* objects_map_, publishes nothing, calls neither the reference-path
\* collaborator nor the optimizer, and leaves history_trajectory_ and
\* has_history_trajectory_ as they were.
C7_SkippedCycleIsNoOp ==
  [][(RunOnceStep /\ (ego_vehicle_id_ = -1 \/ ego_vehicle_id_ \notin DOMAIN objects_map_))
       => /\ published' = <<>>
          /\ cycle_log' = <<>>
          /\ history_trajectory_' = history_trajectory_
          /\ has_history_trajectory_' = has_history_trajectory_]_vars

\* C7 witness: a skipped cycle, the ego id known but not in objects_map_,
\* with a history held through it
C7_Witness ==
  /\ now > history_trajectory_.stamp
  /\ has_history_trajectory_
  /\ ego_vehicle_id_ # -1
  /\ ego_vehicle_id_ \notin DOMAIN objects_map_
  /\ cycle_log = <<>>
  /\ published = <<>>


\* the ego id is known but objects_map_ has no entry for it
EgoUnresolved == ego_vehicle_id_ # -1 /\ ego_vehicle_id_ \notin DOMAIN objects_map_

\* C8 as stated: each of the three conditions, ego identity unresolved
\* included, makes the cycle publish an EMERGENCYSTOP trajectory and set
\* has_history_trajectory_ to false.
C8_AllThreeDegrade ==
  [][(RunOnceStep /\ (\/ EgoUnresolved
                       \/ Calls(cycle_log', "GetReferenceLines -> false") = 1
                       \/ Calls(cycle_log', "Process -> false") = 1))
       => /\ Len(published') = 1
          /\ published'[1].status = EMERGENCYSTOP
          /\ has_history_trajectory_' = FALSE]_vars

\* C8 amended: no reference lines and optimizer failure each make the cycle
\* publish an EMERGENCYSTOP trajectory and set has_history_trajectory_ to
\* false; a cycle with the ego identity unresolved publishes nothing and
\* leaves has_history_trajectory_ as it was.
C8_TwoDegradeOneSkips ==
  [][RunOnceStep
       => /\ (\/ Calls(cycle_log', "GetReferenceLines -> false") = 1
              \/ Calls(cycle_log', "Process -> false") = 1)
               => /\ Len(published') = 1
                  /\ published'[1].status = EMERGENCYSTOP
                  /\ has_history_trajectory_' = FALSE
          /\ EgoUnresolved
               => /\ published' = <<>>
                  /\ Calls(cycle_log', "GenerateEmergencyStopTrajectory") = 0
                  /\ has_history_trajectory_' = has_history_trajectory_]_vars

\* C8 witness: a cycle with the ego identity unresolved, right after one
\* that published EMERGENCYSTOP, has published nothing
C8_Witness ==
  /\ EgoUnresolved
  /\ prev_status = EMERGENCYSTOP
  /\ now >= 2 * planning_cycle_time
  /\ cycle_log = <<>>
  /\ published = <<>>
  /\ ~has_history_trajectory_

\* the points of the emergency-stop trajectory the last cycle published
EmergencyStopPoints == published[1].trajectory_points

PublishedEmergencyStop ==
  published # <<>> /\ published[1].status = EMERGENCYSTOP

\* C9: from an origin with velocity >= 0, the velocities of consecutive
\* points of the emergency-stop trajectory do not increase and are never
\* negative, and once the velocity is zero it stays zero with acceleration
\* zero.
C9_StopVelocityProfile ==
  (PublishedEmergencyStop /\ InitTrajectoryPoint.vel >= 0) =>
    \A i \in 1..(Len(EmergencyStopPoints) - 1) :
      /\ EmergencyStopPoints[i + 1].vel <= EmergencyStopPoints[i].vel
      /\ EmergencyStopPoints[i + 1].vel >= 0
      /\ EmergencyStopPoints[i].vel = 0 =>
           /\ EmergencyStopPoints[i + 1].vel = 0
           /\ EmergencyStopPoints[i + 1].acc = 0

\* C10: the first point of the emergency-stop trajectory is the origin in
\* position, heading and velocity, with acceleration -max_deceleration; no
\* point comes before the origin.
C10_FirstPointIsOrigin ==
  PublishedEmergencyStop =>
    /\ EmergencyStopPoints[1].x = InitTrajectoryPoint.x
    /\ EmergencyStopPoints[1].y = InitTrajectoryPoint.y
    /\ EmergencyStopPoints[1].theta = InitTrajectoryPoint.theta
    /\ EmergencyStopPoints[1].vel = InitTrajectoryPoint.vel
    /\ EmergencyStopPoints[1].acc = -max_lon_acc

\* C11: from an origin with velocity >= 0, arc-length s and relative_time
\* of the emergency-stop trajectory do not decrease from any point to the
\* next, over all its points.
C11_StopArcLengthAndTimeMonotone ==
  (PublishedEmergencyStop /\ InitTrajectoryPoint.vel >= 0) =>
    \A i \in 1..(Len(EmergencyStopPoints) - 1) :
      /\ EmergencyStopPoints[i].s <= EmergencyStopPoints[i + 1].s
      /\ EmergencyStopPoints[i].relative_time <= EmergencyStopPoints[i + 1].relative_time

\* what the call CallGetStitchingTrajectory made was given
CalledHistory == history_trajectory_.trajectory_points
CalledRelativeTime == now - history_trajectory_.stamp
CalledTimeMatchedPoint ==
  CalledHistory[GetTimeMatchIndex(CalledRelativeTime, kEpsTime, CalledHistory) + 1]
CalledPositionMatchedPoint ==
  CalledHistory[GetPositionMatchedIndex(vehicle_state_.x, vehicle_state_.y,
                                        CalledHistory) + 1]

\* the projection of (x, y) on the frame of path point p: its arc length,
\* p.s plus the dot product of the offset and the heading, and its signed
\* perpendicular offset, the cross product of the offset and the heading
ProjectedArcLength(x, y, p) ==
  p.s + (x - p.x) * Cos(p.theta) + (y - p.y) * Sin(p.theta)
SignedOffset(x, y, p) ==
  (x - p.x) * Sin(p.theta) - (y - p.y) * Cos(p.theta)

\* the deviations of the vehicle from the history at the current time
LongitudinalDeviation ==
  CalledTimeMatchedPoint.s
    - ProjectedArcLength(vehicle_state_.x, vehicle_state_.y, CalledPositionMatchedPoint)
LateralDeviation ==
  SignedOffset(vehicle_state_.x, vehicle_state_.y, CalledPositionMatchedPoint)

\* the one point a reinit returns
CalledReinit == ComputeReinitStitchingTrajectory(planning_cycle_time, vehicle_state_)

\* C12: GetStitchingTrajectory returns exactly the one reinit point whenever
\* there is no history, the history is empty, the elapsed time is before the
\* first relative_time of the history or at or after its last, or the
\* absolute lateral or longitudinal deviation is above its threshold.
C12_ReinitTriggers ==
  (/\ cycle_log = <<"GetStitchingTrajectory">>
   /\ \/ ~has_history_trajectory_
      \/ CalledHistory = <<>>
      \/ CalledRelativeTime < CalledHistory[1].relative_time
      \/ CalledRelativeTime >= CalledHistory[Len(CalledHistory)].relative_time
      \/ Abs(LateralDeviation) > max_replan_lat_distance_threshold
      \/ Abs(LongitudinalDeviation) > max_replan_lon_distance_threshold)
    => stitching_trajectory = CalledReinit

\* the indices of the call CallGetStitchingTrajectory made (0-based)
CalledTimeMatchedIndex ==
  GetTimeMatchIndex(CalledRelativeTime, kEpsTime, CalledHistory)
CalledPositionMatchedIndex ==
  GetPositionMatchedIndex(vehicle_state_.x, vehicle_state_.y, CalledHistory)
CalledMatchedIndex == Min(CalledPositionMatchedIndex, CalledTimeMatchedIndex)
CalledForwardIndex ==
  GetTimeMatchIndex(CalledRelativeTime + planning_cycle_time, kEpsTime, CalledHistory)

\* the call has copied a slice of the history
Stitched == cycle_log = <<"GetStitchingTrajectory">> /\ ~CalledSlice.reinit

LastStitchingPoint == stitching_trajectory[Len(stitching_trajectory)]

BesidesSAndTime(tp) == [tp EXCEPT !.s = 0, !.relative_time = 0]

\* C14: when a slice is copied, the result is the run of history points
\* from index max(0, min(position match, time match) - preserve count)
\* through the forward index inclusive, in history order; also when the
\* preserve count is above the matched index.
C14_SliceIndices ==
  Stitched =>
    LET first == Max(0, CalledMatchedIndex - preserve_history_trajectory_point_num)
    IN /\ Len(stitching_trajectory) = CalledForwardIndex - first + 1
       /\ \A i \in 1..Len(stitching_trajectory) :
            BesidesSAndTime(stitching_trajectory[i])
              = BesidesSAndTime(CalledHistory[first + i])

\* C14 witness: a slice of two points or more copied with the preserve
\* count above the matched index
C14_Witness ==
  /\ Stitched
  /\ preserve_history_trajectory_point_num > CalledMatchedIndex
  /\ Len(stitching_trajectory) >= 2
  /\ stitching_trajectory[1].x # LastStitchingPoint.x

\* C15: when a slice is copied, every point of the result has the s of its
\* history point minus the s of the slice's last history point, and the
\* relative_time of its history point plus (history stamp - now); the last
\* point has s = 0 and, the history s not decreasing, the others s <= 0.
C15_Rebase ==
  Stitched =>
    LET first == CalledForwardIndex + 1 - Len(stitching_trajectory)
    IN /\ \A i \in 1..Len(stitching_trajectory) :
            /\ stitching_trajectory[i].s =
                 CalledHistory[first + i].s - CalledHistory[CalledForwardIndex + 1].s
            /\ stitching_trajectory[i].relative_time =
                 CalledHistory[first + i].relative_time
                   + (history_trajectory_.stamp - now)
            /\ stitching_trajectory[i].s <= 0
       /\ LastStitchingPoint.s = 0

\* C15 witness: a slice copied some time after the history's stamp, from
\* history points with s above 0, its first point now at s below 0
C15_Witness ==
  /\ Stitched
  /\ now > history_trajectory_.stamp
  /\ CalledHistory[CalledForwardIndex + 1].s > 0
  /\ stitching_trajectory[1].s < 0
  /\ stitching_trajectory[1].relative_time < 0

\* GetTimeMatchIndex(r, eps, trajectory) is what the claim says it is: the
\* last index when r is above the last relative_time, and otherwise the
\* smallest index i with trajectory[i].relative_time + eps >= r
TimeMatchAsClaimed(r, eps, trajectory) ==
  LET index == GetTimeMatchIndex(r, eps, trajectory)
  IN /\ index \in 0..(Len(trajectory) - 1)
     /\ IF r > trajectory[Len(trajectory)].relative_time
        THEN index = Len(trajectory) - 1
        ELSE /\ trajectory[index + 1].relative_time + eps >= r
             /\ \A i \in 0..(index - 1) : trajectory[i + 1].relative_time + eps < r

\* C16: on a non-empty trajectory with non-decreasing relative_time,
\* GetTimeMatchIndex returns for every query time r a valid index: the last
\* one when r is above the last relative_time, otherwise the smallest i with
\* trajectory[i].relative_time + eps >= r.  Checked for the two queries
\* GetStitchingTrajectory makes, the elapsed time and the elapsed time plus
\* one cycle period.
C16_TimeMatchIndex ==
  (/\ cycle_log = <<"GetStitchingTrajectory">>
   /\ has_history_trajectory_
   /\ CalledHistory # <<>>)
    => /\ TimeMatchAsClaimed(CalledRelativeTime, kEpsTime, CalledHistory)
       /\ TimeMatchAsClaimed(CalledRelativeTime + planning_cycle_time, kEpsTime,
                             CalledHistory)

\* C16 witness: the elapsed time lies after a relative_time of the history
\* by no more than eps, and the match is that point, neither the first nor
\* the last
C16_Witness ==
  /\ cycle_log = <<"GetStitchingTrajectory">>
  /\ has_history_trajectory_
  /\ Len(CalledHistory) >= 3
  /\ CalledTimeMatchedIndex = 1
  /\ CalledRelativeTime = CalledHistory[2].relative_time + kEpsTime
  /\ CalledHistory[1].relative_time < CalledHistory[2].relative_time
  /\ CalledHistory[2].relative_time < CalledHistory[3].relative_time

\* the squared distance of the vehicle from the history point at index i
CalledDistSqr(i) == DistSqr(CalledHistory[i + 1], vehicle_state_.x, vehicle_state_.y)

\* C17: GetPositionMatchedIndex returns the index of the history point
\* nearest to the vehicle's (x, y), and the earliest such index when several
\* points are equally near: every earlier point is strictly farther.
C17_PositionMatchEarliestNearest ==
  (/\ cycle_log = <<"GetStitchingTrajectory">>
   /\ has_history_trajectory_
   /\ CalledHistory # <<>>)
    => /\ \A j \in 0..(Len(CalledHistory) - 1) :
            CalledDistSqr(CalledPositionMatchedIndex) <= CalledDistSqr(j)
       /\ \A j \in 0..(CalledPositionMatchedIndex - 1) :
            CalledDistSqr(j) > CalledDistSqr(CalledPositionMatchedIndex)

\* C18: for the vehicle position and the position-matched history point,
\* GetLatAndLonDistFromRefPoint returns as its first component the projected
\* arc length, p.s plus the dot product of the offset and the heading, and
\* as its second the cross product of the offset and the heading.
C18_FrenetProjection ==
  (/\ cycle_log = <<"GetStitchingTrajectory">>
   /\ has_history_trajectory_
   /\ CalledHistory # <<>>)
    => LET sd == GetLatAndLonDistFromRefPoint(vehicle_state_.x, vehicle_state_.y,
                                              CalledPositionMatchedPoint)
       IN /\ sd[1] = ProjectedArcLength(vehicle_state_.x, vehicle_state_.y,
                                        CalledPositionMatchedPoint)
          /\ sd[2] = SignedOffset(vehicle_state_.x, vehicle_state_.y,
                                  CalledPositionMatchedPoint)

\* C19: the reinit point has relative_time = cycle period, s = 0 and
\* jerk = 0; when |v| < 0.1 and |a| < 0.4 it carries the current vehicle
\* state unchanged, otherwise the state moved on by one cycle period: the
\* position advanced along the heading by v * T + a * T * T / 2 and the
\* velocity raised by a * T (at 5 m/s without acceleration, by 5 x T).
C19_ReinitPoint ==
  (cycle_log = <<"GetStitchingTrajectory">> /\ CalledSlice.reinit) =>
    LET T == planning_cycle_time
        state == vehicle_state_
        still == Abs(state.v) < kEpsilon_v /\ Abs(state.a) < kEpsilon_a
        advance == IF still THEN 0
                   ELSE VelTimesTime(state.v, T)
                          + VelTimesTime(HalfAccTimesTime(state.a, T), T)
        p == stitching_trajectory[1]
    IN /\ Len(stitching_trajectory) = 1
       /\ p.relative_time = T
       /\ p.s = 0
       /\ p.jerk = 0
       /\ p.x = state.x + Cos(state.theta) * advance
       /\ p.y = state.y + Sin(state.theta) * advance
       /\ p.theta = state.theta
       /\ p.kappa = state.kappa
       /\ p.vel = (IF still THEN state.v ELSE state.v + AccTimesTime(state.a, T))
       /\ p.acc = state.a

\* C19 witness: without history, at 5 m/s and no acceleration, the one point
\* returned lies 5 x cycle period further along the heading
C19_Witness ==
  /\ cycle_log = <<"GetStitchingTrajectory">>
  /\ ~has_history_trajectory_
  /\ vehicle_state_.v = 5 * MPS
  /\ vehicle_state_.a = 0
  /\ Len(stitching_trajectory) = 1
  /\ stitching_trajectory[1].x = vehicle_state_.x + VelTimesTime(5 * MPS, planning_cycle_time)
  /\ stitching_trajectory[1].x = vehicle_state_.x + 5 * Meter
  /\ stitching_trajectory[1].relative_time = planning_cycle_time

\* the objects among the obstacles GetKeyObstacle returned
ReturnedDynamicObstacles == {o \in obstacles : o.type = DYNAMIC_OBJECT}

\* the squared planar distance of a position from the planning origin
SqrDistanceToOrigin(position) ==
  (InitTrajectoryPoint.x - position.x) * (InitTrajectoryPoint.x - position.x)
    + (InitTrajectoryPoint.y - position.y) * (InitTrajectoryPoint.y - position.y)

\* C20: with the ego id in the objects map, the DYNAMIC_OBJECT obstacles
\* GetKeyObstacle returns are exactly the objects other than the ego's that
\* lie less than 50 m from the planning origin in the plane and less than
\* 1.5 m above or below the ego's object; the ego is never among them and
\* none is 50 m or more from the origin.
C20_DynamicObstacles ==
  cycle_log = <<"GetKeyObstacle">> =>
    /\ {o.id : o \in ReturnedDynamicObstacles}
         = {id \in DOMAIN objects_map_ :
              /\ id # ego_vehicle_id_
              /\ SqrDistanceToOrigin(objects_map_[id]) < (50 * Meter) * (50 * Meter)
              /\ 2 * Abs(objects_map_[id].z - objects_map_[ego_vehicle_id_].z) < 3 * Meter}
    /\ \A o \in ReturnedDynamicObstacles :
         /\ o.id # ego_vehicle_id_
         /\ o.x = objects_map_[o.id].x
         /\ o.y = objects_map_[o.id].y
         /\ o.z = objects_map_[o.id].z
         /\ SqrDistanceToOrigin(o) < (50 * Meter) * (50 * Meter)

\* C20 witness: of two objects beside the ego's, at its height, the one
\* nearer than 50 m was returned and the one at 50 m was not, while the
\* ego's own object is within the gate
C20_Witness ==
  /\ cycle_log = <<"GetKeyObstacle">>
  /\ Cardinality(DOMAIN objects_map_) = 3
  /\ SqrDistanceToOrigin(objects_map_[ego_vehicle_id_]) < (50 * Meter) * (50 * Meter)
  /\ \E i, j \in DOMAIN objects_map_ \ {ego_vehicle_id_} :
       /\ objects_map_[i].z = objects_map_[ego_vehicle_id_].z
       /\ objects_map_[j].z = objects_map_[ego_vehicle_id_].z
       /\ SqrDistanceToOrigin(objects_map_[i]) < (50 * Meter) * (50 * Meter)
       /\ SqrDistanceToOrigin(objects_map_[j]) = (50 * Meter) * (50 * Meter)
       /\ {o.id : o \in ReturnedDynamicObstacles} = {i}

\* the traffic lights among the obstacles GetKeyObstacle returned
ReturnedSignalObstacles == {o \in obstacles : o.type = TRAFFIC_SIGNAL}

\* the ids both traffic light maps hold
LightIdsInBothMaps == DOMAIN traffic_lights_info_list_ \cap DOMAIN traffic_light_status_list_

\* a map without the entries whose id is not in ids
RestrictedTo(map, ids) == [id \in DOMAIN map \cap ids |-> map[id]]

\* C21: the TRAFFIC_SIGNAL obstacles GetKeyObstacle returns are exactly the
\* signals whose id is in both the info map and the status map, whose state
\* is neither GREEN nor UNKNOWN and whose trigger-volume centre lies less
\* than 50 m from the planning origin and less than 1.5 m above or below the
\* ego's object; an id in only one of the maps is skipped, and the obstacles
\* returned are those returned were that id in neither map.
C21_SignalObstacles ==
  cycle_log = <<"GetKeyObstacle">> =>
    /\ {o.id : o \in ReturnedSignalObstacles}
         = {id \in LightIdsInBothMaps :
              /\ traffic_light_status_list_[id].state # GREEN
              /\ traffic_light_status_list_[id].state # UNKNOWN
              /\ SqrDistanceToOrigin(traffic_lights_info_list_[id])
                   < (50 * Meter) * (50 * Meter)
              /\ 2 * Abs(traffic_lights_info_list_[id].z
                           - objects_map_[ego_vehicle_id_].z) < 3 * Meter}
    /\ \A o \in ReturnedSignalObstacles :
         /\ o.x = traffic_lights_info_list_[o.id].x
         /\ o.y = traffic_lights_info_list_[o.id].y
         /\ o.z = traffic_lights_info_list_[o.id].z
         /\ o.state = traffic_light_status_list_[o.id].state
    /\ obstacles = GetKeyObstacle(
                     objects_map_,
                     RestrictedTo(traffic_light_status_list_, LightIdsInBothMaps),
                     RestrictedTo(traffic_lights_info_list_, LightIdsInBothMaps),
                     InitTrajectoryPoint, ego_vehicle_id_)

\* C21 witness: one light is in both maps, yellow and nearer than 50 m, and
\* was returned; the other is in the info map only, as near, and was not;
\* and an object was returned as well
C21_Witness ==
  /\ cycle_log = <<"GetKeyObstacle">>
  /\ DOMAIN traffic_lights_info_list_ = {1, 2}
  /\ DOMAIN traffic_light_status_list_ = {1}
  /\ traffic_light_status_list_[1].state = YELLOW
  /\ SqrDistanceToOrigin(traffic_lights_info_list_[1]) < (50 * Meter) * (50 * Meter)
  /\ SqrDistanceToOrigin(traffic_lights_info_list_[2]) < (50 * Meter) * (50 * Meter)
  /\ {o.id : o \in ReturnedSignalObstacles} = {1}
  /\ ReturnedDynamicObstacles # {}

\* GetPlanningTargets has been called on ref_lines
TargetsBuilt == cycle_log = <<"GetPlanningTargets">>

Projects(ref_line) == ref_line.projects

\* C22: GetPlanningTargets returns one target for each reference line that
\* projects the origin, in the order of the lines, and none for a line that
\* does not; the targets are those it returns for the projecting lines
\* alone.
C22_OneTargetPerProjectingLine ==
  TargetsBuilt =>
    /\ [i \in 1..Len(planning_targets) |-> planning_targets[i].ref_lane]
         = SelectSeq(ref_lines, Projects)
    /\ planning_targets = GetPlanningTargets(SelectSeq(ref_lines, Projects))

\* C22 witness: of three lines the second does not project, and the two
\* targets are those of the first and the third, which differ
C22_Witness ==
  /\ TargetsBuilt
  /\ Len(ref_lines) = 3
  /\ ref_lines[1].projects /\ ~ref_lines[2].projects /\ ref_lines[3].projects
  /\ ref_lines[1] # ref_lines[3]
  /\ Len(planning_targets) = 2
  /\ planning_targets[1].ref_lane = ref_lines[1]
  /\ planning_targets[2].ref_lane = ref_lines[3]

\* C23: every target has has_stop_point true exactly when the line's length
\* minus the projected arc length is below 50 m; its stop_s is the line's
\* length when has_stop_point is true and the largest double otherwise.
C23_StopPoint ==
  TargetsBuilt =>
    \A i \in 1..Len(planning_targets) :
      LET target == planning_targets[i]
          line   == target.ref_lane
      IN /\ target.has_stop_point <=> (line.length - line.s < 50 * Meter)
         /\ target.has_stop_point => target.stop_s = line.length
         /\ ~target.has_stop_point => target.stop_s = DBL_MAX

\* C23 witness: two lines, the one with 40 m left and the other with 200 m:
\* the first target has a stop point at the line's length, the second none
C23_Witness ==
  /\ TargetsBuilt
  /\ Len(planning_targets) = 2
  /\ planning_targets[1].ref_lane.length - planning_targets[1].ref_lane.s = 40 * Meter
  /\ planning_targets[2].ref_lane.length - planning_targets[2].ref_lane.s = 200 * Meter
  /\ planning_targets[1].has_stop_point
  /\ planning_targets[1].stop_s = 100 * Meter
  /\ ~planning_targets[2].has_stop_point
  /\ planning_targets[2].stop_s = DBL_MAX

\* C24: every target's desired_vel is at most the desired-velocity cap and
\* at most max_lat_acc / (|kappa| + 1e-4), kappa the curvature at the
\* projected s, and is one of the two.  The quotient is compared after
\* multiplying by its divisor.
C24_DesiredVelocity ==
  TargetsBuilt =>
    \A i \in 1..Len(planning_targets) :
      LET target  == planning_targets[i]
          divisor == Abs(target.ref_lane.kappa) + 1
      IN /\ target.desired_vel <= 8 * MPS
         /\ target.desired_vel * divisor <= 4 * MPS2 * 40000
         /\ \/ target.desired_vel = 8 * MPS
            \/ target.desired_vel * divisor = 4 * MPS2 * 40000

\* C24 witness: a straight line, whose target has the cap, and a line
\* curving to the negative side, whose target has the 5 m/s the lateral
\* acceleration allows
C24_Witness ==
  /\ TargetsBuilt
  /\ Len(planning_targets) = 2
  /\ planning_targets[1].ref_lane.kappa = 0
  /\ planning_targets[1].desired_vel = 8 * MPS
  /\ planning_targets[2].ref_lane.kappa < 0
  /\ planning_targets[2].desired_vel = 5 * MPS

\* a step that is a cycle of RunOnce past its two early returns
ResolvedCycleStep == RunOnceStep /\ cycle_log' # <<>>

\* C27: has_history_trajectory_ is true only if history_trajectory_ is the
\* trajectory the most recent ego-resolved cycle published and that cycle
\* succeeded (NORMAL or EMPTY): an ego-resolved cycle leaves the flag true
\* exactly when it published NORMAL or EMPTY, and then with that trajectory
\* as the history; every other step leaves flag and history as they are;
\* an EMERGENCYSTOP trajectory is never stored, and a stitching result
\* other than the reinit point is cut from a flagged NORMAL history.
C27_HistoryIsLastSuccess ==
  [][/\ ResolvedCycleStep =>
          /\ Len(published') = 1
          /\ has_history_trajectory_' <=> published'[1].status \in {NORMAL, EMPTY}
          /\ has_history_trajectory_' => history_trajectory_' = published'[1]
          /\ ~has_history_trajectory_' => history_trajectory_' = history_trajectory_
          /\ history_trajectory_'.status # EMERGENCYSTOP
          /\ stitching_trajectory'
               # ComputeReinitStitchingTrajectory(planning_cycle_time, vehicle_state_')
               => /\ has_history_trajectory_
                  /\ history_trajectory_.status = NORMAL
     /\ ~ResolvedCycleStep =>
          UNCHANGED <<has_history_trajectory_, history_trajectory_>>]_vars

\* C27 witness: after a success and then a failure the flag is down, the
\* emergency stop published, and the history still the older NORMAL
\* trajectory, which the stitching of the failed cycle was cut from
C27_Witness ==
  /\ PublishedEmergencyStop
  /\ ~has_history_trajectory_
  /\ history_trajectory_.status = NORMAL
  /\ history_trajectory_.stamp < now
  /\ Len(stitching_trajectory) > 1

\* C28: the squared distance of the vehicle from the history point at the
\* index GetPositionMatchedIndex returns exceeds the smallest squared
\* distance over all the points by less than the tolerance 1e-5 m^2, which
\* is 2.5 squared units of length.
C28_PositionMatchWithinTolerance ==
  (/\ cycle_log = <<"GetStitchingTrajectory">>
   /\ has_history_trajectory_
   /\ CalledHistory # <<>>)
    => \A j \in 0..(Len(CalledHistory) - 1) :
         2 * (CalledDistSqr(CalledPositionMatchedIndex) - CalledDistSqr(j)) < 5

\* C30: a call of GetStitchingTrajectory leaves history_trajectory_ (its
\* points with their s and relative_time, and its stamp) and
\* has_history_trajectory_ as they were, and when it copies a slice every
\* point returned has the x, y, heading, curvature, velocity and
\* acceleration (and every other field but s and relative_time) of the
\* history point it was copied from.
C30_StitchingLeavesHistory ==
  [][cycle_log' = <<"GetStitchingTrajectory">> =>
       /\ history_trajectory_' = history_trajectory_
       /\ has_history_trajectory_' = has_history_trajectory_
       /\ ~CalledSlice.reinit =>
            \A i \in 1..Len(stitching_trajectory') :
              LET returned == stitching_trajectory'[i]
                  source   == history_trajectory_.trajectory_points[CalledSlice.from + i]
              IN /\ returned.x = source.x
                 /\ returned.y = source.y
                 /\ returned.theta = source.theta
                 /\ returned.kappa = source.kappa
                 /\ returned.vel = source.vel
                 /\ returned.acc = source.acc
                 /\ [returned EXCEPT !.s = source.s,
                                     !.relative_time = source.relative_time] = source]_vars

\* C30 witness: a slice was copied whose first point lies away from the
\* origin and moves, and got another s and another relative_time than the
\* history point it comes from, which is still in the history
C30_Witness ==
  /\ Stitched
  /\ LET returned == stitching_trajectory[1]
         source   == history_trajectory_.trajectory_points[CalledSlice.from + 1]
     IN /\ source.x # 0
        /\ source.vel # 0
        /\ returned.s # source.s
        /\ returned.relative_time # source.relative_time
        /\ returned.x = source.x
        /\ returned.vel = source.vel

\* the last cycle called Process
ProcessCalled ==
  Calls(cycle_log, "Process -> true") + Calls(cycle_log, "Process -> false") = 1

WorldHandler ==
  \/ ObjectsCallback
  \/ TrafficLightStatusCallback
  \/ TrafficLightInfoCallback
  \/ EgoVehicleStatusCallback
  \/ EgoVehicleInfoCallback

\* RunOnce is past its early returns and has not returned
InCycle == pc # "spinOnce"

\* C25: from the start of a RunOnce cycle to its end no handler of the
\* objects, signal status, signal info, ego status or ego info stream runs,
\* and objects_map_, the two traffic-light maps and ego_vehicle_id_ stay as
\* they are, so that the ego looked up at the start is the one of the map
\* the obstacles are selected from and the targets are built beside.
C25_OneSnapshotPerCycle ==
  [][/\ InCycle => /\ ~WorldHandler
                   /\ UNCHANGED <<objects_map_, lights, ego_vehicle_id_>>
     /\ InCycle' =>
          /\ ego_vehicle_id_' \in DOMAIN objects_map_'
          /\ ego_object_' = objects_map_'[ego_vehicle_id_']
          /\ pc' \in {"GetPlanningTargets", "Process", "success"} =>
               obstacles' =
                 GetKeyObstacle(objects_map_', traffic_light_status_list_',
                                traffic_lights_info_list_',
                                stitching_trajectory'[Len(stitching_trajectory')],
                                ego_vehicle_id_')]_vars

\* C25 witness: a cycle has looked up the ego among several objects, has
\* selected obstacles and built a target, with deliveries on the ego
\* status stream before it
C25_Witness ==
  /\ pc = "Process"
  /\ Cardinality(DOMAIN objects_map_) > 1
  /\ obstacles # {}
  /\ planning_targets # <<>>
  /\ ego_vehicle_status_ # DefaultEgoVehicleStatus

\* a delivery on any of the six inbound streams
InboundHandler ==
  \/ WorldHandler
  \/ GoalPoseCallback

\* a call of one of RunOnce's helpers
Helper ==
  \/ RunOnceGetStitchingTrajectory
  \/ RunOnceGetKeyObstacle
  \/ RunOnceGetPlanningTargets
  \/ RunOnceGenerateEmergencyStopTrajectory

\* C26: every inbound handler (ego status, ego info, objects, signal
\* status, signal info, goal pose) and every helper (stitching, obstacle
\* selection, target building, emergency-stop generation) leaves
\* history_trajectory_ and has_history_trajectory_ unchanged; they change
\* only in RunOnce's own failure and success branches.
C26_HistoryWrittenOnlyByRunOnce ==
  [][/\ (InboundHandler \/ Helper) =>
          UNCHANGED <<history_trajectory_, has_history_trajectory_>>
     /\ ~UNCHANGED <<history_trajectory_, has_history_trajectory_>> =>
          (RunOnceFailure \/ RunOnceSuccess)]_vars

\* C26 witness: with a history kept from the cycle before and a route
\* requested by the goal pose handler, a cycle has gone through stitching
\* and emergency-stop generation and the history is still there
C26_Witness ==
  /\ pc = "failure"
  /\ has_history_trajectory_
  /\ history_trajectory_.trajectory_points # <<>>
  /\ route_requests # <<>>
  /\ Len(stitching_trajectory) > 1

\* everything of the planner but the record of the route service calls
planner_state ==
  <<ego_vehicle_status_, ego_object_, optimal_trajectory, now, ego_vehicle_id_,
    objects_map_, lights, vehicle_state_, preserve_history_trajectory_point_num,
    has_history_trajectory_, history_trajectory_, stitching_trajectory,
    obstacles, targets, published, prev_status, cycle_log, optimizer_output>>

\* C31: a goal pose delivered while ego_vehicle_id_ is -1 makes no call of
\* the route service; one delivered with a known ego id makes one call,
\* whose request has the pose of the current vehicle state as its start
\* pose and the delivered goal pose as its end pose; and a call that fails
\* changes nothing of the planner and leaves the loop in spinOnce, from
\* where it goes on.
C31_GoalPoseRouteRequest ==
  [][/\ ego_vehicle_id_ = -1 => route_requests' = route_requests
     /\ route_requests' # route_requests =>
          /\ Len(route_requests') = Len(route_requests) + 1
          /\ SubSeq(route_requests', 1, Len(route_requests)) = route_requests
          /\ LET call  == route_requests'[Len(route_requests')]
                 state == vehicle_state_
             IN /\ call.request.start_pose
                     = Pose(state.x, state.y, state.z, state.theta)
                /\ call.request.end_pose = call.goal_pose
                /\ ~call.ok => /\ UNCHANGED planner_state
                               /\ pc' = "spinOnce"]_vars

====
